---- MODULE Spec2Model ----
(***************************************************************************)
(* A model of lidarpaint's paintfile.py: the tile coordinate arithmetic,   *)
(* the three protocol handlers (WMTS, TMS, WMS), the on-disk tile cache    *)
(* and the per-file colorization loop.                                     *)
(*                                                                         *)
(* Python floats are modelled as exact rationals [n, d] (d > 0, reduced),  *)
(* so int() and math.ceil() act on the exact quotient.  Lengths are in     *)
(* metres, as in the source; the map is scaled down so that one ground     *)
(* cell spans a handful of tiles.                                          *)
(***************************************************************************)
EXTENDS Integers, Sequences, FiniteSets, TLC

(***************************************************************************)
(* Bounds of the model.                                                    *)
(***************************************************************************)
\* Ground cells have kilometre coordinates (k, k+1) for k in 0..MaxKm.
MaxKm == 1
\* Number of mosaics one handler object assembles in a run.
MaxMosaics == 2
\* Stands for 6378137*pi, half the width of the Web-Mercator square, in a
\* world scaled down to the cells above.
WorldHalf == 4000

(***************************************************************************)
(* Program constants.                                                      *)
(***************************************************************************)
\* The ground cell is 1000 m wide (lambx_km*1000).
CellMetres == 1000
\* Tile size of the TMS zoom configuration.
TmsTileSize == 256

None == "None"
\* An optional value: Nothing, or Some(v) holding v.
Nothing == <<>>
Some(v) == << v >>

\* A statement's result held in a local variable: x is evaluated once, and
\* F is applied to its value.
Bind(x, F(_)) == CHOOSE y \in { F(v) : v \in { x } } : TRUE

(***************************************************************************)
(* Float arithmetic, as exact rationals.                                   *)
(***************************************************************************)
Abs(i) == IF i < 0 THEN -i ELSE i

RECURSIVE GCD(_, _)
GCD(a, b) == IF b = 0 THEN a ELSE GCD(b, a % b)

Rat(n, d) ==
  LET s == IF d < 0 THEN -1 ELSE 1
      g == GCD(Abs(n), Abs(d))
  IN  [n |-> (s * n) \div g, d |-> (s * d) \div g]

FromInt(i) == [n |-> i, d |-> 1]
RAdd(a, b) == Rat(a.n * b.d + b.n * a.d, a.d * b.d)
RSub(a, b) == Rat(a.n * b.d - b.n * a.d, a.d * b.d)
RMul(a, b) == Rat(a.n * b.n, a.d * b.d)
RDiv(a, b) == Rat(a.n * b.d, a.d * b.n)
RLt(a, b) == a.n * b.d < b.n * a.d
RLe(a, b) == a.n * b.d <= b.n * a.d

\* int(x): truncation toward zero.
PyInt(r) == IF r.n >= 0 THEN r.n \div r.d ELSE -((-r.n) \div r.d)
\* math.ceil(x)
PyCeil(r) == -((-r.n) \div r.d)

\* Order of Python tuples (a, b) of floats.
TupleLt(p, q) == RLt(p[1], q[1]) \/ (p[1] = q[1] /\ RLt(p[2], q[2]))

RECURSIVE Insert(_, _)
Insert(e, s) ==
  IF s = <<>> THEN <<e>>
  ELSE IF TupleLt(e, Head(s)) THEN <<e>> \o s
  ELSE <<Head(s)>> \o Insert(e, Tail(s))

\* list.sort() on a list of tuples.
RECURSIVE SortTuples(_)
SortTuples(s) == IF s = <<>> THEN <<>> ELSE Insert(Head(s), SortTuples(Tail(s)))

(***************************************************************************)
(* pyproj's Transformer.transform: the reprojection from the target        *)
(* reference system to the server's.  It is the identity between equal     *)
(* reference systems and is modelled by an affine map otherwise.           *)
(***************************************************************************)
Transform(t, x, y) ==
  << RAdd(RAdd(RMul(t.a, x), RMul(t.b, y)), t.e),
     RAdd(RAdd(RMul(t.c, x), RMul(t.d, y)), t.f) >>

IdentityTransform ==
  [a |-> FromInt(1), b |-> FromInt(0), c |-> FromInt(0), d |-> FromInt(1),
   e |-> FromInt(0), f |-> FromInt(0)]

\* A reprojection that rotates slightly and shifts.
SkewTransform ==
  [a |-> FromInt(1), b |-> Rat(1, 10), c |-> Rat(-1, 10), d |-> FromInt(1),
   e |-> FromInt(-2300), f |-> FromInt(-500)]

(***************************************************************************)
(* WebMercatorTileCoords                                                   *)
(***************************************************************************)
\* __init__: the attributes derived from a zoom configuration.
TileCoordsInit(zoomconfig, tile_mxy) ==
  LET mpp == RMul(Rat(28, 100000), zoomconfig.scale_denominator)
  IN  IF tile_mxy = Nothing
      THEN [x0 |-> zoomconfig.x0, y0 |-> zoomconfig.y0,
            tile_size_x |-> zoomconfig.tile_size_x,
            tile_size_y |-> zoomconfig.tile_size_y,
            mpp |-> mpp,
            tile_mx |-> RMul(FromInt(zoomconfig.tile_size_x), mpp),
            tile_my |-> RMul(FromInt(zoomconfig.tile_size_y), mpp)]
      ELSE [x0 |-> zoomconfig.x0, y0 |-> zoomconfig.y0,
            tile_size_x |-> zoomconfig.tile_size_x,
            tile_size_y |-> zoomconfig.tile_size_y,
            mpp |-> RDiv(tile_mxy[1], FromInt(zoomconfig.tile_size_x)),
            tile_mx |-> tile_mxy[1],
            tile_my |-> tile_mxy[1]]

\* transform_to_tile(lat, lon, transformer) -> (tile_x, tile_y, ax, ay)
transform_to_tile(TC, lat, lon, transformer) ==
  LET a == Transform(transformer, lat, lon)
      bx == RSub(a[1], TC.x0)
      by == RSub(TC.y0, a[2])
  IN  << RDiv(bx, TC.tile_mx), RDiv(by, TC.tile_my), a[1], a[2] >>

\* tile_to_geo with the y axis not inverted (ay = y0 + by).
tile_to_geo_NoFlip(TC, tile_x, tile_y) ==
  LET bx == RMul(tile_x, TC.tile_mx)
      by == RMul(tile_y, TC.tile_my)
  IN  << RAdd(bx, TC.x0), RAdd(TC.y0, by) >>

\* tile_to_geo(tile_x, tile_y) -> (ax, ay)
tile_to_geo(TC, tile_x, tile_y) ==
  LET bx == RMul(tile_x, TC.tile_mx)
      by == RMul(tile_y, TC.tile_my)
  IN  << RAdd(bx, TC.x0), RSub(TC.y0, by) >>

\* target_to_tile(lamb_x, lamb_y)
target_to_tile(h, lamb_x, lamb_y) ==
  transform_to_tile(h.TC, lamb_x, lamb_y, h.trans_target_to_tileref)

(***************************************************************************)
(* TileHandler.compute_tile_parameters                                     *)
(***************************************************************************)
\* The four corners of the cell, in the order of the two nested loops.
CellCorners(lambx_km, lamby_km) ==
  << << lambx_km * CellMetres, lamby_km * CellMetres >>,
     << lambx_km * CellMetres, (lamby_km - 1) * CellMetres >>,
     << (lambx_km + 1) * CellMetres, lamby_km * CellMetres >>,
     << (lambx_km + 1) * CellMetres, (lamby_km - 1) * CellMetres >> >>

\* The tile coordinates of the four corners.
CornerTiles(h, lambx_km, lamby_km) ==
  LET c == CellCorners(lambx_km, lamby_km)
  IN  [i \in 1..4 |-> target_to_tile(h, FromInt(c[i][1]), FromInt(c[i][2]))]

\* txstart = int(txlist[0][0]) after the sort
TileStart(sorted) == PyInt(sorted[1][1])
\* txend = math.ceil(txlist[-1][0]) after the sort
TileEnd(sorted) == PyCeil(sorted[Len(sorted)][1])

\* The size counted as if the end tile were included.
MosaicSize_Inclusive(tstart, tend, tile_size) == (tend - tstart + 1) * tile_size

\* size_x = (txend-txstart)*self.tile_size_x
MosaicSize(tstart, tend, tile_size) == (tend - tstart) * tile_size

compute_tile_parameters(h, lambx_km, lamby_km) ==
  LET t == CornerTiles(h, lambx_km, lamby_km)
      txlist == SortTuples([i \in 1..4 |-> << t[i][1], t[i][3] >>])
      tylist == SortTuples([i \in 1..4 |-> << t[i][2], t[i][4] >>])
      txstart == TileStart(txlist)
      tystart == TileStart(tylist)
      txend == TileEnd(txlist)
      tyend == TileEnd(tylist)
      g1 == tile_to_geo(h.TC, FromInt(txstart), FromInt(tystart))
      g2 == tile_to_geo(h.TC, FromInt(txend), FromInt(tyend))
  IN  [txstart |-> txstart, txend |-> txend,
       tystart |-> tystart, tyend |-> tyend,
       size_x |-> MosaicSize(txstart, txend, h.tile_size_x),
       size_y |-> MosaicSize(tystart, tyend, h.tile_size_y),
       tx1_orig |-> g1[1], ty1_orig |-> g1[2],
       tx2_orig |-> g2[1], ty2_orig |-> g2[2]]


(***************************************************************************)
(* Configuration (lidarpaint-config.json) and the servers' capabilities.   *)
(***************************************************************************)
TargetRef == "EPSG:2154"

\* Transformer.from_crs(a, b)
TransformerFromCrs(from_crs, to_crs) ==
  IF from_crs = to_crs THEN IdentityTransform ELSE SkewTransform

RECURSIVE Pow2(_)
Pow2(k) == IF k <= 0 THEN 1 ELSE 2 * Pow2(k - 1)

\* What a WMTS server advertises: layers and tile matrix sets.
WmtsCapabilities ==
  [layer_dict |->
     [l \in {"ORTHOIMAGERY.ORTHOPHOTOS", "ORTHO.L93", "ORTHO.WEST"} |->
        CASE l = "ORTHOIMAGERY.ORTHOPHOTOS" ->
               [id |-> l, format |-> <<"image", "jpeg">>, style |-> "normal",
                matrixset |-> "PM"]
          [] l = "ORTHO.L93" ->
               [id |-> l, format |-> <<"image", "png">>, style |-> "normal",
                matrixset |-> "LAMB93"]
          [] OTHER ->
               [id |-> l, format |-> <<"image", "png">>, style |-> "normal",
                matrixset |-> "LAMB93_WEST"]],
   matrixset_dict |->
     [m \in {"PM", "LAMB93", "LAMB93_WEST"} |->
        CASE m = "PM" ->
               [crs |-> "EPSG:3857",
                zooms |-> [z \in {12} |->
                  [scale_denominator |-> FromInt(50000),
                   x0 |-> FromInt(-4000), y0 |-> FromInt(4000),
                   tile_size_x |-> 256, tile_size_y |-> 256]]]
          [] m = "LAMB93" ->
               [crs |-> "EPSG:2154",
                zooms |-> [z \in {12} |->
                  [scale_denominator |-> FromInt(25000),
                   x0 |-> FromInt(0), y0 |-> FromInt(3000),
                   tile_size_x |-> 256, tile_size_y |-> 256]]]
          [] OTHER ->
               \* a matrix set whose top left corner lies inside the cells
               [crs |-> "EPSG:2154",
                zooms |-> [z \in {12} |->
                  [scale_denominator |-> FromInt(25000),
                   x0 |-> FromInt(1500), y0 |-> FromInt(1200),
                   tile_size_x |-> 256, tile_size_y |-> 512]]]]]

\* The layer configurations of lidarpaint-config.json, by identifier.
LayerConfigs ==
  [c \in {"PM", "L93", "WEST", "OSM", "SAT", "WMSPNG", "WMSTIF"} |->
     CASE c = "PM" ->
            [protocol |-> "wmts", key |-> "k", zoom |-> 12,
             layer |-> "ORTHOIMAGERY.ORTHOPHOTOS"]
       [] c = "L93" ->
            [protocol |-> "wmts", key |-> "k", zoom |-> 12, layer |-> "ORTHO.L93"]
       [] c = "WEST" ->
            [protocol |-> "wmts", key |-> "k", zoom |-> 12, layer |-> "ORTHO.WEST"]
       [] c = "OSM" ->
            [protocol |-> "tms", zoom |-> 1,
             endpoint_url |->
               << [label |-> "z", arg |-> None], [label |-> "x", arg |-> None],
                  [label |-> "y", arg |-> None] >>]
       [] c = "WMSPNG" ->
            [protocol |-> "wms", key |-> "k", endpoint_url |-> "png-server",
             layer |-> 3, crs |-> "EPSG:3857"]
       [] c = "WMSTIF" ->
            [protocol |-> "wms", key |-> "k", endpoint_url |-> "tif-server",
             layer |-> 2, crs |-> "EPSG:2154"]
       [] OTHER ->
            [protocol |-> "tms", zoom |-> 2,
             endpoint_url |->
               << [label |-> "switch", arg |-> <<"a", "b", "c">>],
                  [label |-> "zoom", arg |-> None], [label |-> "x", arg |-> None],
                  [label |-> "-y", arg |-> None] >>]]

(***************************************************************************)
(* WmtsHandler.__init__ and TmsHandler.__init__                            *)
(***************************************************************************)
WmtsHandlerInit(config, config_identifier, target_ref, caps) ==
  LET layer_config == caps.layer_dict[config.layer]
      matrixconfig == caps.matrixset_dict[layer_config.matrixset]
      zoomconfig == matrixconfig.zooms[config.zoom]
      TC == TileCoordsInit(zoomconfig, Nothing)
  IN  [protocol |-> "wmts",
       config_identifier |-> config_identifier,
       target_ref |-> target_ref,
       layer |-> config.layer,
       zoom |-> config.zoom,
       layer_config |-> layer_config,
       format |-> layer_config.format,
       format_ext |-> layer_config.format[2],
       matrixset_identifier |-> layer_config.matrixset,
       ortho_ref |-> matrixconfig.crs,
       TC |-> TC,
       trans_target_to_tileref |-> TransformerFromCrs(target_ref, matrixconfig.crs),
       tile_size_x |-> TC.tile_size_x,
       tile_size_y |-> TC.tile_size_y,
       url |-> <<>>,
       switch |-> <<"">>]

\* The loop over the {label:arg} tokens of the URL template: the last
\* switch token sets self.switch.
RECURSIVE ParseSwitch(_, _)
ParseSwitch(tokens, switch) ==
  IF tokens = <<>> THEN switch
  ELSE ParseSwitch(Tail(tokens),
         IF Head(tokens).label = "switch" THEN Head(tokens).arg ELSE switch)

TmsHandlerInit(config, config_identifier, target_ref) ==
  LET ortho_ref == "EPSG:3857"
      zoomconfig == [x0 |-> FromInt(-WorldHalf), y0 |-> FromInt(WorldHalf),
                     scale_denominator |-> FromInt(1),
                     tile_size_x |-> TmsTileSize, tile_size_y |-> TmsTileSize]
      tile_mxy == Some(RDiv(FromInt(WorldHalf * 2), FromInt(Pow2(config.zoom))))
      TC == TileCoordsInit(zoomconfig, tile_mxy)
  IN  [protocol |-> "tms",
       config_identifier |-> config_identifier,
       target_ref |-> target_ref,
       layer |-> config_identifier,
       zoom |-> config.zoom,
       layer_config |-> None,
       format |-> None,
       format_ext |-> "unk",
       matrixset_identifier |-> None,
       ortho_ref |-> ortho_ref,
       TC |-> TC,
       trans_target_to_tileref |-> TransformerFromCrs(target_ref, ortho_ref),
       tile_size_x |-> TC.tile_size_x,
       tile_size_y |-> TC.tile_size_y,
       url |-> config.endpoint_url,
       switch |-> ParseSwitch(config.endpoint_url, <<"">>)]

\* LazColorize.__init__ selecting the handler of a tile protocol.
TileHandlerInit(config_identifier) ==
  LET config == LayerConfigs[config_identifier]
  IN  IF config.protocol = "wmts"
      THEN WmtsHandlerInit(config, config_identifier, TargetRef, WmtsCapabilities)
      ELSE TmsHandlerInit(config, config_identifier, TargetRef)


(***************************************************************************)
(* The cache directory, the tile server and PIL images.                    *)
(***************************************************************************)
\* The bytes a server sends for a tile with status 200: an encoded image of
\* the tile's size.  epoch numbers the request, so that no two responses
\* are byte-identical.
ServerTile(h, tile_x, tile_y, epoch) ==
  [x |-> tile_x, y |-> tile_y, epoch |-> epoch,
   w |-> h.tile_size_x, h |-> h.tile_size_y]

\* Image.open(io.BytesIO(data))
ImageOpen(data) ==
  [w |-> data.w, h |-> data.h, colour |-> << data.x, data.y, data.epoch >>]

\* Image.new('RGB', (w, h), colour)
ImageNew(w, h, colour) == [w |-> w, h |-> h, colour |-> colour]

\* The red image that stands for a tile that could not be fetched.
PlaceholderColour == << 250, 0, 0 >>
\* A placeholder built with width and height exchanged.
PlaceholderImage_Swapped(h) == ImageNew(h.tile_size_y, h.tile_size_x, PlaceholderColour)
PlaceholderImage(h) == ImageNew(h.tile_size_x, h.tile_size_y, PlaceholderColour)

\* The canvas of fetch_image: its size and the images pasted so far.
CanvasColour == << 0, 250, 0 >>
CanvasNew(size_x, size_y) == [size |-> << size_x, size_y >>, pastes |-> <<>>]

\* full_image.paste(i, (xpix, ypix))
Paste(canvas, i, xpix, ypix) ==
  [canvas EXCEPT !.pastes = Append(@, [at |-> << xpix, ypix >>, img |-> i])]

\* os.path.join(config['cache_dir'], '%s-%s-%d-%d.%s' % (...))
CacheName(prefix, zoom, tile_x, tile_y, ext) == << prefix, zoom, tile_x, tile_y, ext >>

\* open(name, 'wb+').write(data)
WriteFile(files, name, data) == (name :> data) @@ files

\* os.rename(old, new)
RenameFile(files, old, new) ==
  [n \in (DOMAIN files \ {old}) \cup {new} |-> IF n = new THEN files[old] ELSE files[n]]

(***************************************************************************)
(* WmtsHandler.fetch_tile and TmsHandler.fetch_tile.  st holds the cache   *)
(* directory, switch_n and the requests sent so far; status is the status  *)
(* code the server answers with if it is asked.  testmode is set to False  *)
(* by __init__ and never changed.                                          *)
(***************************************************************************)
\* wmts_GetTile_fmt filled in
WmtsTileUrl(h, tile_x, tile_y) ==
  [layer |-> h.layer, style |-> h.layer_config.style,
   matrixset_identifier |-> h.matrixset_identifier, zoom |-> h.zoom,
   y |-> tile_y, x |-> tile_x, format |-> h.format]

\* The "Temporary compatibility with old cache" rename.
MigrateOldName(h, cache, tile_x, tile_y) ==
  LET old_name == CacheName("orig", h.zoom, tile_x, tile_y, "jpg")
  IN  IF /\ h.config_identifier = "PM"
         /\ h.layer = "ORTHOIMAGERY.ORTHOPHOTOS"
         /\ old_name \in DOMAIN cache
      THEN RenameFile(cache, old_name,
                      CacheName(h.layer, h.zoom, tile_x, tile_y, "jpeg"))
      ELSE cache

\* A lookup that never finds the file.
CacheHit_Never(cache, orig_name) == FALSE

\* "Try the cache first": whether the tile is read from the cache.
CacheHit(cache, orig_name) == orig_name \in DOMAIN cache

\* Every response kept, whatever its status.
TileStored_Always(status) == TRUE

\* The status code on which the response is kept.
TileStored(status) == status = 200

\* The image returned for the data read or received.
TileImage(h, data) == IF data # Nothing THEN ImageOpen(data[1]) ELSE PlaceholderImage(h)

WmtsFetchTile(h, st, tile_x, tile_y, status) ==
  LET cache1 == MigrateOldName(h, st.cache, tile_x, tile_y)
      orig_name == CacheName(h.layer, h.zoom, tile_x, tile_y, h.format_ext)
      content == ServerTile(h, tile_x, tile_y, Len(st.requests) + 1)
      req == [x |-> tile_x, y |-> tile_y, url |-> WmtsTileUrl(h, tile_x, tile_y),
              switch |-> None, status |-> status]
  IN  IF CacheHit(cache1, orig_name)
      THEN [cache |-> cache1, switch_n |-> st.switch_n, requests |-> st.requests,
            cached |-> TRUE, image |-> TileImage(h, Some(cache1[orig_name]))]
      ELSE [cache |-> IF TileStored(status)
                      THEN WriteFile(cache1, orig_name, content) ELSE cache1,
            switch_n |-> st.switch_n,
            requests |-> Append(st.requests, req),
            cached |-> FALSE,
            image |-> TileImage(h, IF TileStored(status) THEN Some(content) ELSE Nothing)]

\* The value substituted for one {label} of the URL template.
TmsValue(h, label, tile_x, tile_y, switch_n) ==
  CASE label = "x" -> tile_x
    [] label = "y" -> tile_y
    [] label = "!y" -> Pow2(h.zoom - 1) - 1 - tile_y
    [] label = "-y" -> Pow2(h.zoom) - 1 - tile_y
    [] label = "zoom" -> h.zoom
    [] label = "z" -> h.zoom
    [] label = "apikey" -> "apikey_not_set"
    [] label = "switch" -> h.switch[switch_n + 1]

TmsTileUrl(h, tile_x, tile_y, switch_n) ==
  [i \in 1..Len(h.url) |->
     [label |-> h.url[i].label,
      value |-> TmsValue(h, h.url[i].label, tile_x, tile_y, switch_n)]]

\* switch_n left as it is.
NextSwitch_Stuck(h, switch_n) == switch_n

\* self.switch_n = (self.switch_n + 1) % len(self.switch)
NextSwitch(h, switch_n) == (switch_n + 1) % Len(h.switch)

TmsFetchTile(h, st, tile_x, tile_y, status) ==
  LET orig_name == CacheName(h.layer, h.zoom, tile_x, tile_y, "unk")
      content == ServerTile(h, tile_x, tile_y, Len(st.requests) + 1)
      req == [x |-> tile_x, y |-> tile_y,
              url |-> TmsTileUrl(h, tile_x, tile_y, st.switch_n),
              switch |-> h.switch[st.switch_n + 1], status |-> status]
  IN  IF CacheHit(st.cache, orig_name)
      THEN [cache |-> st.cache, switch_n |-> st.switch_n, requests |-> st.requests,
            cached |-> TRUE, image |-> TileImage(h, Some(st.cache[orig_name]))]
      ELSE [cache |-> IF TileStored(status)
                      THEN WriteFile(st.cache, orig_name, content) ELSE st.cache,
            switch_n |-> NextSwitch(h, st.switch_n),
            requests |-> Append(st.requests, req),
            cached |-> FALSE,
            image |-> TileImage(h, IF TileStored(status) THEN Some(content) ELSE Nothing)]

\* self.fetch_tile(x, y), by the handler's class
fetch_tile(h, st, tile_x, tile_y, status) ==
  IF h.protocol = "wmts" THEN WmtsFetchTile(h, st, tile_x, tile_y, status)
  ELSE TmsFetchTile(h, st, tile_x, tile_y, status)

(***************************************************************************)
(* TileHandler.fetch_image: the two nested loops.  acc carries the handler *)
(* state, the canvas, xpix and ypix, and the log of the fetch_tile calls.  *)
(***************************************************************************)
\* xpix += self.tile_size_x
NextXpix(h, xpix) == xpix + h.tile_size_x
\* ypix += self.tile_size_y
NextYpix_OnePixel(h, ypix) == ypix + 1
NextYpix(h, ypix) == ypix + h.tile_size_y

RECURSIVE FetchRow(_, _, _, _, _, _)
FetchRow(h, acc, x, txend, y, statuses) ==
  IF x >= txend THEN acc
  ELSE LET Pasted(a, r) ==
             [cache |-> r.cache, switch_n |-> r.switch_n, requests |-> r.requests,
              calls |-> Append(a.calls,
                          [x |-> x, y |-> y, cached |-> r.cached, image |-> r.image,
                           nreq |-> Len(r.requests)]),
              canvas |-> Paste(a.canvas, r.image, a.xpix, a.ypix),
              xpix |-> NextXpix(h, a.xpix), ypix |-> a.ypix]
           Fetched(a) ==
             Bind(fetch_tile(h, a, x, y, statuses[<< x, y >>]), LAMBDA r : Pasted(a, r))
       IN  FetchRow(h, Bind(acc, Fetched), x + 1, txend, y, statuses)

RECURSIVE FetchRows(_, _, _, _, _, _, _)
FetchRows(h, acc, txstart, txend, y, tyend, statuses) ==
  IF y >= tyend THEN acc
  ELSE FetchRows(h,
         Bind(FetchRow(h, [acc EXCEPT !.xpix = 0], txstart, txend, y, statuses),
              LAMBDA row : [row EXCEPT !.ypix = NextYpix(h, row.ypix)]),
         txstart, txend, y + 1, tyend, statuses)

fetch_image(h, st, txstart, txend, tystart, tyend, size_x, size_y, statuses) ==
  FetchRows(h,
    [cache |-> st.cache, switch_n |-> st.switch_n, requests |-> st.requests,
     calls |-> st.calls, canvas |-> CanvasNew(size_x, size_y),
     xpix |-> 0, ypix |-> 0],
    txstart, txend, tystart, tyend, statuses)

\* The tiles of range(tystart, tyend) x range(txstart, txend).
TilesOf(g) == (g.txstart .. (g.txend - 1)) \X (g.tystart .. (g.tyend - 1))

\* The status codes a server answers with.
StatusCodes == {200, 404}


(***************************************************************************)
(* WmsHandler: the layer tree of the capabilities and find_layer.          *)
(*                                                                         *)
(* A tree of n layers is held flat: the layers are numbered 1..n in        *)
(* document order of their parents (parent[i] < i, 0 for a top layer),     *)
(* and each has the keys load_layer gave it: crs, an optional name (the    *)
(* layer's number, when it has one), optional min_scale_denominator and    *)
(* max_scale_denominator, and its sub-layers 'layer', in document order.   *)
(***************************************************************************)
\* A float written m * 10^e.
Sci(m, e) == [m |-> m, e |-> e]

\* The sub-layers of layer n (n = 0: the top layers), in document order.
RECURSIVE ChildrenFrom(_, _, _)
ChildrenFrom(tree, n, i) ==
  IF i > Len(tree.parent) THEN <<>>
  ELSE (IF tree.parent[i] = n THEN << i >> ELSE <<>>) \o ChildrenFrom(tree, n, i + 1)

SubLayers(tree, n) == ChildrenFrom(tree, n, 1)

\* The entry find_layer starts from.
DefaultEntry ==
  [max_scale_denominator |-> Sci(1, 12), min_scale_denominator |-> Sci(0, 0),
   name |-> Nothing, title |-> Nothing]

\* The entry the next layer of the loop starts from, had the loop worked
\* on layer_entry itself instead of on a copy.
LoopEntry_NoCopy(layer_entry, current_entry) == current_entry

\* current_entry = layer_entry.copy(): the loop's layer_entry keeps its
\* keys whatever is assigned to current_entry.
LoopEntry(layer_entry, current_entry) == layer_entry

\* The scale denominators of current_entry after the two 'if ... in layer'.
InheritScale(tree, layer, layer_entry) ==
  [layer_entry EXCEPT
     !.max_scale_denominator =
        IF tree.max[layer] # Nothing THEN tree.max[layer][1] ELSE @,
     !.min_scale_denominator =
        IF tree.min[layer] # Nothing THEN tree.min[layer][1] ELSE @]

\* find_layer_r(layer_entry, name, layers).  crs is the one list object that
\* every copy of the entry shares under the key 'crs': += extends it in
\* place.  The result is the entry found, if any, and that list.
RECURSIVE find_layer_r(_, _, _, _, _)
find_layer_r(tree, layer_entry, crs, name, layers) ==
  IF layers = <<>> THEN [sub |-> Nothing, crs |-> crs]
  ELSE LET layer == Head(layers)
           current_entry == InheritScale(tree, layer, layer_entry)
           crs1 == crs \o tree.crs[layer]
       IN  IF tree.name[layer] = Some(name)
           THEN [sub |-> Some([current_entry EXCEPT !.name = tree.name[layer],
                                                    !.title = Some(layer)]),
                 crs |-> crs1]
           ELSE LET r == find_layer_r(tree, current_entry, crs1, name,
                                      SubLayers(tree, layer))
                IN  IF r.sub # Nothing THEN r
                    ELSE find_layer_r(tree, LoopEntry(layer_entry, current_entry),
                                      r.crs, name, Tail(layers))

\* find_layer(name): the entry found with its 'crs' list, or Nothing.
find_layer(tree, name) ==
  LET r == find_layer_r(tree, DefaultEntry, <<>>, name, SubLayers(tree, 0))
  IN  IF r.sub = Nothing THEN Nothing
      ELSE Some([max_scale_denominator |-> r.sub[1].max_scale_denominator,
                 min_scale_denominator |-> r.sub[1].min_scale_denominator,
                 name |-> r.sub[1].name, title |-> r.sub[1].title,
                 crs |-> r.crs])

(***************************************************************************)
(* WmsHandler.__init__, compute_image_parameters and fetch_image.          *)
(***************************************************************************)
\* What a WMS server advertises: size limits, formats, and a layer tree.
WmsCapabilities(endpoint_url) ==
  [maxwidth |-> IF endpoint_url = "png-server" THEN Some(4096) ELSE Nothing,
   maxheight |-> IF endpoint_url = "png-server" THEN Some(4096) ELSE Nothing,
   formats |-> IF endpoint_url = "png-server"
               THEN << <<"image", "png">>, <<"image", "jpeg">> >>
               ELSE << <<"image", "png">>, <<"image", "geotiff">> >>,
   layers |-> [parent |-> << 0, 1, 1 >>,
               name |-> << Nothing, Some(2), Some(3) >>,
               min |-> << Some(Sci(1, 3)), Nothing, Some(Sci(5, 2)) >>,
               max |-> << Nothing, Nothing, Some(Sci(1, 6)) >>,
               crs |-> << <<"EPSG:4326">>, <<"EPSG:2154">>, <<"EPSG:3857">> >>]]

\* The return value of load_capabilities, from the status of its request.
CapabilitiesLoaded_Always(status_code) == TRUE
CapabilitiesLoaded(status_code) == status_code = 200

Min(a, b) == IF a < b THEN a ELSE b

\* WmsHandler.__init__ once the capabilities are loaded.
WmsHandlerInit(config, config_identifier, target_ref, caps) ==
  LET format == IF \E k \in 1..Len(caps.formats) : caps.formats[k] = <<"image", "geotiff">>
                THEN <<"image", "geotiff">> ELSE caps.formats[1]
      maxwidth == IF caps.maxwidth # Nothing THEN caps.maxwidth[1] ELSE 40960
      maxheight == IF caps.maxheight # Nothing THEN caps.maxheight[1] ELSE 40960
  IN  [protocol |-> "wms",
       config_identifier |-> config_identifier,
       target_ref |-> target_ref,
       endpoint_url |-> config.endpoint_url,
       layer |-> config.layer,
       layers |-> caps.layers,
       layer_config |-> find_layer(caps.layers, config.layer),
       format |-> format,
       format_ext |-> format[2],
       ortho_ref |-> config.crs,
       trans_target_to_wmsref |-> TransformerFromCrs(target_ref, config.crs),
       size_x |-> Min(5250, maxwidth),
       size_y |-> Min(5250, maxheight)]

\* The handler __init__ leaves behind: complete, or, when load_capabilities
\* returned False, only the attributes set before the early return.
WmtsHandler(config, config_identifier, target_ref, status_code) ==
  IF CapabilitiesLoaded(status_code)
  THEN WmtsHandlerInit(config, config_identifier, target_ref, WmtsCapabilities)
  ELSE [protocol |-> "wmts", config_identifier |-> config_identifier,
        target_ref |-> target_ref, layer |-> config.layer, zoom |-> config.zoom]

WmsHandler(config, config_identifier, target_ref, status_code) ==
  IF CapabilitiesLoaded(status_code)
  THEN WmsHandlerInit(config, config_identifier, target_ref,
                      WmsCapabilities(config.endpoint_url))
  ELSE [protocol |-> "wms", config_identifier |-> config_identifier,
        target_ref |-> target_ref, layer |-> config.layer]

\* LazColorize.__init__: the image_fetcher of the configured default layer.
\* status_code answers the capabilities request, if one is sent.
LazColorizeInit(config_identifier, status_code) ==
  LET config == LayerConfigs[config_identifier]
  IN  CASE config.protocol = "wmts" ->
             WmtsHandler(config, config_identifier, TargetRef, status_code)
        [] config.protocol = "wms" ->
             WmsHandler(config, config_identifier, TargetRef, status_code)
        [] OTHER -> TmsHandlerInit(config, config_identifier, TargetRef)

\* list.sort() on a list of floats.
SortFloats(s) ==
  LET t == SortTuples([k \in 1..Len(s) |-> << s[k], FromInt(0) >>])
  IN  [k \in 1..Len(s) |-> t[k][1]]

\* compute_image_parameters: the bounding box, in the server's reference
\* system, of the four corners of the cell, and the image size.
compute_image_parameters(h, lambx_km, lamby_km) ==
  LET c == CellCorners(lambx_km, lamby_km)
      w == [k \in 1..4 |-> Transform(h.trans_target_to_wmsref,
                                     FromInt(c[k][1]), FromInt(c[k][2]))]
      txlist == SortFloats([k \in 1..4 |-> w[k][1]])
      tylist == SortFloats([k \in 1..4 |-> w[k][2]])
  IN  [bottom_lat |-> txlist[1], left_lon |-> tylist[1],
       top_lat |-> txlist[4], right_lon |-> tylist[4],
       size_x |-> h.size_x, size_y |-> h.size_y]

(***************************************************************************)
(* Files.  A path names a file of the cache directory or of the working    *)
(* directory; fs holds both directories, each a function name -> content.  *)
(***************************************************************************)
CachePath(name) == [dir |-> "cache_dir", name |-> name]
CwdPath(name) == [dir |-> ".", name |-> name]

\* os.path.exists(path)
Exists(fs, path) ==
  IF path.dir = "cache_dir" THEN path.name \in DOMAIN fs.cache
  ELSE path.name \in DOMAIN fs.files

\* A file written at path.
Written(fs, path, data) ==
  IF path.dir = "cache_dir"
  THEN [fs EXCEPT !.cache = WriteFile(@, path.name, data)]
  ELSE [fs EXCEPT !.files = WriteFile(@, path.name, data)]

\* The directory without the file.
Remove(files, name) == [n \in DOMAIN files \ {name} |-> files[n]]

\* os.unlink(path): raises FileNotFoundError when there is no such file.
Unlink(fs, path) ==
  IF ~Exists(fs, path) THEN [fs EXCEPT !.raised = Some("FileNotFoundError")]
  ELSE IF path.dir = "cache_dir" THEN [fs EXCEPT !.cache = Remove(@, path.name)]
  ELSE [fs EXCEPT !.files = Remove(@, path.name)]

\* os.rename(old, new) in the working directory: raises FileNotFoundError
\* when old does not exist.
Rename(fs, old, new) ==
  IF ~Exists(fs, old) THEN [fs EXCEPT !.raised = Some("FileNotFoundError")]
  ELSE [fs EXCEPT !.files = RenameFile(@, old.name, new.name)]

\* ref.replace(':', '_')
RefFile(ref) ==
  CASE ref = "EPSG:2154" -> "EPSG_2154"
    [] ref = "EPSG:3857" -> "EPSG_3857"
    [] OTHER -> "EPSG_4326"

\* name.endswith('.' + ext)
EndsWith(path, ext) == path.name[Len(path.name)] = ext

(***************************************************************************)
(* subprocess.run([tool, ...]) without check: the call returns whatever    *)
(* the tool did.  A tool writes its output when all its input files exist  *)
(* and it does not fail (ok); otherwise it writes nothing.  n is the       *)
(* position on the command line of the file being processed.               *)
(***************************************************************************)
RunTool(fs, tool, n, inputs, output, ok) ==
  LET success == ok /\ \A k \in 1..Len(inputs) : Exists(fs, inputs[k])
      done == [fs EXCEPT !.tools = Append(@, [tool |-> tool, arg |-> n,
                                              inputs |-> inputs, output |-> output,
                                              ok |-> success])]
  IN  IF success THEN Written(done, output, [by |-> tool]) ELSE done

\* One statement after another: Step runs on the state fs leaves, unless an
\* exception was raised, which it then passes on.
Then(fs, Step(_)) == Bind(fs, LAMBDA s : IF s.raised # Nothing THEN s ELSE Step(s))

\* georeference_image: gdal_translate, then the removal of the original
\* unless keeptmpfiles is set.  That removal names orig_image, a variable
\* that does not exist: it raises NameError.
georeference_image(main_config, fs, n, orig_name, image_ortho_georef, ok) ==
  Then(RunTool(fs, "gdal_translate", n, << orig_name >>, image_ortho_georef, ok),
       LAMBDA s1 : IF ~main_config.keeptmpfiles
                   THEN [s1 EXCEPT !.raised = Some("NameError")]
                   ELSE s1)

\* TileHandler.fetch_georeferenced_image.  status_code answers every tile
\* request of the cell.  The result is the new state and the pair the method returns.
TileFetchGeoreferencedImage(main_config, h, fs, n, lambx_km, lamby_km, status_code, ok) ==
  IF "TC" \notin DOMAIN h
  THEN [fs |-> [fs EXCEPT !.raised = Some("AttributeError")],
        ortho_ref |-> None, image |-> None]
  ELSE
  LET image == CwdPath(<< "img", lambx_km, lamby_km, "png" >>)
      image_ortho_georef ==
        CwdPath(<< "img", lambx_km, lamby_km, RefFile(h.ortho_ref), "geotiff" >>)
      Fetched(g) ==
        Bind(fetch_image(h, [cache |-> fs.cache, switch_n |-> fs.switch_n,
                             requests |-> fs.requests, calls |-> <<>>],
                         g.txstart, g.txend, g.tystart, g.tyend, g.size_x, g.size_y,
                         [t \in TilesOf(g) |-> status_code]),
             LAMBDA r :
               [fs EXCEPT !.geom = Some(g), !.cache = r.cache, !.switch_n = r.switch_n,
                          !.requests = r.requests, !.calls = Append(@, r.calls),
                          !.canvas = Some(r.canvas),
                          !.files = WriteFile(@, image.name, r.canvas)])
  IN  [fs |-> Then(Bind(compute_tile_parameters(h, lambx_km, lamby_km), Fetched),
                   LAMBDA s1 : georeference_image(main_config, s1, n, image,
                                                  image_ortho_georef, ok)),
       ortho_ref |-> h.ortho_ref, image |-> image_ortho_georef]

\* The bytes a WMS server sends for an image with status 200.
ServerImage(h, p, epoch) == [bbox |-> p, format |-> h.format, epoch |-> epoch]

\* wms_GetMap_fmt filled in
WmsImageUrl(h, p) ==
  [endpoint_url |-> h.endpoint_url, layer |-> h.layer, format |-> h.format,
   crs |-> h.ortho_ref, bbox |-> << p.bottom_lat, p.left_lon, p.top_lat, p.right_lon >>,
   size_x |-> p.size_x, size_y |-> p.size_y]

\* WmsHandler.fetch_image: the cache first, else one request, stored when
\* its status is 200.  Returns the name of the cache file either way.
WmsFetchImage(h, fs, n, p, lambx_km, lamby_km, status_code) ==
  LET orig_name == CachePath(<< h.layer, lambx_km, lamby_km, h.format_ext >>)
      sent == [fs EXCEPT !.image_requests =
                 Append(@, [arg |-> n, x |-> lambx_km, y |-> lamby_km,
                            url |-> WmsImageUrl(h, p), status |-> status_code])]
  IN  [orig_name |-> orig_name,
       fs |-> IF Exists(fs, orig_name) THEN fs
              ELSE IF status_code # 200
              THEN [sent EXCEPT !.diagnostics = Append(@, [msg |-> "HTTP error", arg |-> n])]
              ELSE Written(sent, orig_name,
                           ServerImage(h, p, Len(sent.image_requests)))]

\* WmsHandler.fetch_georeferenced_image
WmsFetchGeoreferencedImage(main_config, h, fs, n, lambx_km, lamby_km, status_code, ok) ==
  IF "trans_target_to_wmsref" \notin DOMAIN h
  THEN [fs |-> [fs EXCEPT !.raised = Some("AttributeError")],
        ortho_ref |-> None, image |-> None]
  ELSE
  LET image_ortho_georef ==
        CwdPath(<< "img", lambx_km, lamby_km, RefFile(h.ortho_ref), "geotiff" >>)
      Georeferenced(f) ==
        IF ~EndsWith(f.orig_name, "geotiff")
        THEN [fs |-> georeference_image(main_config, f.fs, n, f.orig_name,
                                        image_ortho_georef, ok),
              ortho_ref |-> h.ortho_ref, image |-> image_ortho_georef]
        ELSE [fs |-> f.fs, ortho_ref |-> h.ortho_ref, image |-> f.orig_name]
      Fetched(p) ==
        Bind(WmsFetchImage(h, [fs EXCEPT !.geom = Some(p)], n, p, lambx_km, lamby_km,
                           status_code),
             Georeferenced)
  IN  Bind(compute_image_parameters(h, lambx_km, lamby_km), Fetched)

fetch_georeferenced_image(main_config, h, fs, n, lambx_km, lamby_km, status_code, ok) ==
  IF h.protocol = "wms"
  THEN WmsFetchGeoreferencedImage(main_config, h, fs, n, lambx_km, lamby_km,
                                  status_code, ok["gdal_translate"])
  ELSE TileFetchGeoreferencedImage(main_config, h, fs, n, lambx_km, lamby_km,
                                   status_code, ok["gdal_translate"])

\* The external tools, and the outcomes of one cell's tools: at most one
\* of them fails.
Tools == {"gdal_translate", "gdalwarp", "pdal"}
ToolOutcomes == { [t \in Tools |-> t # failing] : failing \in Tools \cup {"none"} }

\* LazColorize.get_extent, after the images are fetched: gdalwarp when the
\* reference systems differ, the pipeline file, pdal, the renaming of its
\* output and the removal of the raster.  Each step runs only if the one
\* before raised nothing.
Colorize(main_config, h, r, n, infile, lambx_km, lamby_km, ok) ==
  LET warp == r.ortho_ref # h.target_ref
      image_target_georef ==
        IF warp
        THEN CwdPath(<< "img", lambx_km, lamby_km, RefFile(h.target_ref), "geotiff" >>)
        ELSE r.image
      tmp == CwdPath(<< "color", lambx_km, lamby_km, "laz", "tmp" >>)
      out == CwdPath(<< "color", lambx_km, lamby_km, "laz" >>)
      pdal_tmp == CwdPath(<< "pdal_tmp", "json" >>)
      Warped(s0) ==
        IF warp
        THEN RunTool(s0, "gdalwarp", n, << r.image >>, image_target_georef, ok["gdalwarp"])
        ELSE s0
      Configured(s1) ==
        Written(s1, pdal_tmp,
                [infile |-> infile, raster |-> image_target_georef, filename |-> tmp])
      Piped(s2) ==
        RunTool(s2, "pdal", n, << CwdPath(infile), image_target_georef, pdal_tmp >>,
                tmp, ok["pdal"])
      Renamed(s3) == Rename(s3, tmp, out)
      Cleaned(s4) ==
        IF ~main_config.keeptmpfiles THEN Unlink(s4, image_target_georef) ELSE s4
  IN  Then(Then(Then(Then(Then(r.fs, Warped), Configured), Piped), Renamed), Cleaned)

get_extent(main_config, h, fs, n, infile, lambx_km, lamby_km, status_code, ok) ==
  Bind(fetch_georeferenced_image(main_config, h, fs, n, lambx_km, lamby_km,
                                 status_code, ok),
       LAMBDA r : IF r.fs.raised # Nothing THEN r.fs
                  ELSE Colorize(main_config, h, r, n, infile, lambx_km, lamby_km, ok))

\* re_ign_file.match(arg).  A file name is held as its parts between
\* underscores: a stem, two groups of four digits, and what follows; it
\* matches when what follows starts with LA93 or LB93.
re_ign_file_match(arg) ==
  IF arg[4] \in {"LA93", "LB93"} THEN Some(<< arg[2], arg[3] >>) ELSE Nothing

(***************************************************************************)
(* The tile handlers at work: one handler object, built by __init__, that  *)
(* is asked for the mosaics of a sequence of ground cells.                 *)
(***************************************************************************)
VARIABLES
  handler,    \* the handler object's attributes set by __init__
  cache,      \* the files of the cache directory: name -> bytes
  switch_n,   \* TmsHandler.switch_n
  requests,   \* the tile requests sent to the server, in order
  calls,      \* the fetch_tile calls made, in order, one list per mosaic
  cell,       \* the ground cell (lambx_km, lamby_km) being worked on
  geom,       \* what compute_tile_parameters returned for it
  canvas,     \* the image fetch_image saved for it
  nmosaic,    \* mosaics assembled so far
  roundtrip   \* a tile, its projection coordinates, and the tile of those

tilevars == << handler, cache, switch_n, requests, calls, cell, geom, canvas,
               nmosaic, roundtrip >>

VARIABLES
  layers,       \* WmsHandler.layers, the layer tree of the capabilities
  layer_found   \* a name looked up with find_layer, and what it returned

layervars == << layers, layer_found >>

VARIABLES
  main_config,     \* the configuration: default_layer and keeptmpfiles
  discovery,       \* the status of the capabilities request, if one was sent
  argv,            \* sys.argv[1:]
  argi,            \* names of argv the main loop has taken
  pc,              \* "loop", or "exit", or "raised" after an uncaught exception
  raised,          \* that exception
  files,           \* the files of the working directory: name -> content
  tools,           \* the subprocess.run calls made, in order
  image_requests,  \* the WMS image requests sent, in order
  started,         \* positions in argv of the names get_extent was called for
  completed,       \* positions of those for which it returned
  diagnostics      \* messages printed about names and requests

runvars == << main_config, discovery, argv, argi, pc, raised, files, tools,
              image_requests, started, completed, diagnostics >>

VARIABLES
  wcell,    \* per worker: the ground cell it processes
  wkeys,    \* per worker: the cache files it has still to obtain, in order
  wpc,      \* per worker: where it stands
  woffset,  \* per worker: chunks written to the cache file it has open
  wgot,     \* per worker: the cache files it received with status 200
  wread,    \* per worker: the cache files it found and the bytes it read
  wpiped    \* per worker: the pipeline document its pdal run read

workervars == << wcell, wkeys, wpc, woffset, wgot, wread, wpiped >>

vars == << tilevars, layervars, runvars, workervars >>

\* No workers: the state of these variables in a single sequential run.
NoWorkers ==
  /\ wcell = <<>>
  /\ wkeys = <<>>
  /\ wpc = <<>>
  /\ woffset = <<>>
  /\ wgot = <<>>
  /\ wread = <<>>
  /\ wpiped = <<>>

\* No run of the main loop: the state of these variables where a handler
\* is exercised on its own.
NoRun ==
  /\ main_config = [default_layer |-> None, keeptmpfiles |-> FALSE]
  /\ discovery = Nothing
  /\ argv = <<>>
  /\ argi = 0
  /\ pc = "idle"
  /\ raised = Nothing
  /\ files = [n \in {} |-> None]
  /\ tools = <<>>
  /\ image_requests = <<>>
  /\ started = <<>>
  /\ completed = <<>>
  /\ diagnostics = <<>>

\* No layer tree: the state of these variables where no WmsHandler is at work.
NoLayers ==
  /\ layers = [parent |-> <<>>, min |-> <<>>, max |-> <<>>, crs |-> <<>>, name |-> <<>>]
  /\ layer_found = Nothing

\* The configured layers that use a tile protocol.
TileConfigIds == {"PM", "L93", "WEST", "OSM", "SAT"}

\* The ground cells named on the command line.
Cells == { << k, k + 1 >> : k \in 0 .. MaxKm }

\* The cache directory as earlier runs may have left it: empty, or, for the
\* layer that once used the old naming scheme, holding one old-style file.
EmptyDir == [n \in {} |-> None]
InitialCaches(h) ==
  {EmptyDir} \cup
  IF h.config_identifier = "PM"
  THEN { (CacheName("orig", h.zoom, 0, y, "jpg") :> ServerTile(h, 0, y, 0)) : y \in 0..1 }
  ELSE {}

Init ==
  /\ handler \in { TileHandlerInit(c) : c \in TileConfigIds }
  /\ cache \in InitialCaches(handler)
  /\ switch_n = 0
  /\ requests = <<>>
  /\ calls = <<>>
  /\ cell = Nothing
  /\ geom = Nothing
  /\ canvas = Nothing
  /\ nmosaic = 0
  /\ roundtrip = Nothing
  /\ NoLayers
  /\ NoRun
  /\ NoWorkers

\* fetch_georeferenced_image, first half: compute_tile_parameters(cell)
ComputeTileParameters ==
  /\ nmosaic < MaxMosaics
  /\ geom = Nothing \/ canvas # Nothing
  /\ \E c \in Cells :
       /\ cell' = Some(c)
       /\ geom' = Some(compute_tile_parameters(handler, c[1], c[2]))
  /\ canvas' = Nothing
  /\ roundtrip' = Nothing
  /\ UNCHANGED << handler, cache, switch_n, requests, calls, nmosaic, layervars, runvars, workervars >>

\* fetch_georeferenced_image, second half: fetch_image(...) on that result
FetchImage ==
  /\ geom # Nothing
  /\ canvas = Nothing
  /\ \E statuses \in [TilesOf(geom[1]) -> StatusCodes] :
       \E r \in { fetch_image(handler,
                    [cache |-> cache, switch_n |-> switch_n, requests |-> requests,
                     calls |-> <<>>],
                    geom[1].txstart, geom[1].txend, geom[1].tystart, geom[1].tyend,
                    geom[1].size_x, geom[1].size_y, statuses) } :
           /\ cache' = r.cache
           /\ switch_n' = r.switch_n
           /\ requests' = r.requests
           /\ calls' = Append(calls, r.calls)
           /\ canvas' = Some(r.canvas)
  /\ nmosaic' = nmosaic + 1
  /\ UNCHANGED << handler, cell, geom, roundtrip, layervars, runvars, workervars >>

\* Half-integer tile coordinates from -MaxTile to MaxTile.
MaxTile == 2
TileCoordinates == { Rat(k, 2) : k \in (-2 * MaxTile) .. (2 * MaxTile) }

\* tile_to_geo, then transform_to_tile with the identity reprojection
RoundTrip ==
  /\ nmosaic = 0
  /\ geom = Nothing
  /\ roundtrip = Nothing
  /\ \E tx \in TileCoordinates, ty \in TileCoordinates :
       LET g == tile_to_geo(handler.TC, tx, ty)
       IN  roundtrip' = Some([tile |-> << tx, ty >>, geo |-> g,
                              back |-> transform_to_tile(handler.TC, g[1], g[2],
                                                         IdentityTransform)])
  /\ UNCHANGED << handler, cache, switch_n, requests, calls, cell, geom, canvas,
                  nmosaic, layervars, runvars, workervars >>

Next == ComputeTileParameters \/ FetchImage \/ RoundTrip

Spec == Init /\ [][Next]_vars


(***************************************************************************)
(* Reading the state: the calls in order, the regions of a canvas.         *)
(***************************************************************************)
RECURSIVE Flatten(_)
Flatten(ss) == IF ss = <<>> THEN <<>> ELSE Head(ss) \o Flatten(Tail(ss))

\* Every fetch_tile call of the run, in order.
AllCalls == Flatten(calls)

\* The calls of the mosaic assembled last.
LastCalls == IF calls = <<>> THEN <<>> ELSE calls[Len(calls)]

\* A call that sent a request which the server refused.
Failed(c) == ~c.cached /\ requests[c.nreq].status # 200

\* The rectangles [x, x+w) x [y, y+h) overlap / the first holds the second.
Overlap(ax, ay, aw, ah, bx, by, bw, bh) ==
  /\ aw > 0 /\ ah > 0 /\ bw > 0 /\ bh > 0
  /\ ax < bx + bw /\ bx < ax + aw /\ ay < by + bh /\ by < ay + ah
Covers(ax, ay, aw, ah, bx, by, bw, bh) ==
  /\ ax <= bx /\ bx + bw <= ax + aw /\ ay <= by /\ by + bh <= ay + ah

\* Every pixel of the region (x, y, w, h) of the canvas shows the image img:
\* the region lies on the canvas and the last paste that touches it is img,
\* pasted at the region's corner and of the region's size.
RegionShows(cv, x, y, w, h, img) ==
  LET touching == { i \in 1..Len(cv.pastes) :
                      Overlap(cv.pastes[i].at[1], cv.pastes[i].at[2],
                              cv.pastes[i].img.w, cv.pastes[i].img.h, x, y, w, h) }
  IN  /\ Covers(0, 0, cv.size[1], cv.size[2], x, y, w, h)
      /\ touching # {}
      /\ LET last == CHOOSE i \in touching : \A j \in touching : j <= i
         IN  /\ cv.pastes[last].at = << x, y >>
             /\ cv.pastes[last].img = img
             /\ img.w = w /\ img.h = h

(***************************************************************************)
(* C1.  Over-coverage: the integer tile bounds returned by                 *)
(* compute_tile_parameters lie on or outside the tile coordinates of the   *)
(* four corners of the cell, for positive and negative tile coordinates,   *)
(* so that the box tile_to_geo(txstart, tystart)..tile_to_geo(txend,       *)
(* tyend) contains the cell's box and is never empty.                      *)
(***************************************************************************)
C1_OverCoverage ==
  geom # Nothing =>
    LET g == geom[1]
        t == CornerTiles(handler, cell[1][1], cell[1][2])
    IN  /\ \A i \in 1..4 :
             /\ RLe(FromInt(g.txstart), t[i][1]) /\ RLe(t[i][1], FromInt(g.txend))
             /\ RLe(FromInt(g.tystart), t[i][2]) /\ RLe(t[i][2], FromInt(g.tyend))
             /\ RLe(g.tx1_orig, t[i][3]) /\ RLe(t[i][3], g.tx2_orig)
             /\ RLe(g.ty2_orig, t[i][4]) /\ RLe(t[i][4], g.ty1_orig)
        /\ g.txstart < g.txend
        /\ g.tystart < g.tyend


(***************************************************************************)
(* C2.  Cache idempotence, as claimed: of two fetch_tile calls for the     *)
(* same tile address the second sends no request, whatever the server      *)
(* answered to the first, and returns the content the first returned.      *)
(***************************************************************************)
C2_SecondCallFromCache ==
  \A i \in 1..Len(AllCalls) : \A j \in (i + 1)..Len(AllCalls) :
    (AllCalls[i].x = AllCalls[j].x /\ AllCalls[i].y = AllCalls[j].y)
      => (AllCalls[j].cached /\ AllCalls[j].image = AllCalls[i].image)

(***************************************************************************)
(* C2, amended.  Once a fetch_tile call for a tile address was served from *)
(* the cache or by a 200 response, every later call for that address sends *)
(* no request and returns the same content; so an address gets at most one *)
(* 200 response.                                                           *)
(***************************************************************************)
C2_CacheIdempotence ==
  /\ \A i \in 1..Len(AllCalls) : \A j \in (i + 1)..Len(AllCalls) :
       (/\ AllCalls[i].x = AllCalls[j].x
        /\ AllCalls[i].y = AllCalls[j].y
        /\ ~Failed(AllCalls[i]))
         => (AllCalls[j].cached /\ AllCalls[j].image = AllCalls[i].image)
  /\ \A i \in 1..Len(requests) : \A j \in (i + 1)..Len(requests) :
       (requests[i].x = requests[j].x /\ requests[i].y = requests[j].y)
         => requests[i].status # 200

\* A tile fetched twice: answered with 200 the first time, read from the
\* cache the second time.
C2_Witness ==
  \E i \in 1..Len(AllCalls) : \E j \in (i + 1)..Len(AllCalls) :
    /\ AllCalls[i].x = AllCalls[j].x /\ AllCalls[i].y = AllCalls[j].y
    /\ ~AllCalls[i].cached /\ ~Failed(AllCalls[i])
    /\ AllCalls[j].cached

(***************************************************************************)
(* C3.  Placeholder substitution: whatever tiles of a mosaic get a non-200 *)
(* response, fetch_image completes, the canvas is size_x by size_y, the    *)
(* region of every failed tile shows the placeholder (250,0,0) and the     *)
(* region of every other tile shows the image of that tile's data.         *)
(***************************************************************************)
C3_PlaceholderSubstitution ==
  canvas # Nothing =>
    LET g == geom[1]
        cv == canvas[1]
    IN  /\ cv.size = << g.size_x, g.size_y >>
        /\ \A t \in TilesOf(g) :
             \E k \in 1..Len(LastCalls) :
               LET c == LastCalls[k]
               IN  /\ c.x = t[1] /\ c.y = t[2]
                   /\ Failed(c) => c.image.colour = PlaceholderColour
                   /\ ~Failed(c) => c.image.colour[1] = t[1] /\ c.image.colour[2] = t[2]
                   /\ RegionShows(cv,
                        (t[1] - g.txstart) * handler.tile_size_x,
                        (t[2] - g.tystart) * handler.tile_size_y,
                        handler.tile_size_x, handler.tile_size_y, c.image)

\* A mosaic of four tiles of which some failed and some did not.
C3_WitnessMixed ==
  /\ canvas # Nothing
  /\ Len(LastCalls) = 4
  /\ \E k \in 1..Len(LastCalls) : Failed(LastCalls[k])
  /\ \E k \in 1..Len(LastCalls) : ~Failed(LastCalls[k])

(***************************************************************************)
(* C5.  Switch rotation, as claimed: with a switch token listing values,   *)
(* the k-th fetch_tile call (counting every call from 0) uses element      *)
(* k mod len of the list.                                                  *)
(***************************************************************************)
C5_SwitchByCall ==
  handler.protocol = "tms" =>
    \A k \in 1..Len(AllCalls) :
      ~AllCalls[k].cached =>
        requests[AllCalls[k].nreq].switch
          = handler.switch[((k - 1) % Len(handler.switch)) + 1]

(***************************************************************************)
(* C5, amended.  A template without switch token always substitutes the    *)
(* empty default value; with a switch token listing values, the k-th       *)
(* request sent to the server (counting from 0; a call served from the     *)
(* cache sends none and does not advance the rotation) uses element        *)
(* k mod len of the list.                                                  *)
(***************************************************************************)
HasSwitchToken(url) == \E i \in 1..Len(url) : url[i].label = "switch"

C5_SwitchByRequest ==
  handler.protocol = "tms" =>
    /\ switch_n = Len(requests) % Len(handler.switch)
    /\ \A k \in 1..Len(requests) :
         /\ requests[k].switch = handler.switch[((k - 1) % Len(handler.switch)) + 1]
         /\ \A i \in 1..Len(requests[k].url) :
              requests[k].url[i].label = "switch"
                => requests[k].url[i].value = requests[k].switch
         /\ ~HasSwitchToken(handler.url) => requests[k].switch = ""
    /\ HasSwitchToken(handler.url) => handler.switch = << "a", "b", "c" >>

\* Four requests with the switch list a,b,c: the fourth uses a again, and a
\* call served from the cache came before it.
C5_Witness ==
  /\ handler.protocol = "tms"
  /\ Len(handler.switch) = 3
  /\ Len(requests) >= 4
  /\ requests[4].switch = "a"
  /\ \E k \in 1..Len(AllCalls) :
       AllCalls[k].cached /\ AllCalls[k].nreq < 4

(***************************************************************************)
(* C6.  Round trip: transform_to_tile, with the identity reprojection,     *)
(* applied to tile_to_geo(tile_x, tile_y) returns (tile_x, tile_y); the y  *)
(* axis is inverted both ways: a larger tile_y is a smaller geographic y.  *)
(***************************************************************************)
C6_RoundTrip ==
  roundtrip # Nothing =>
    LET r == roundtrip[1]
        TC == handler.TC
        below == tile_to_geo(TC, r.tile[1], RAdd(r.tile[2], FromInt(1)))
        south == transform_to_tile(TC, r.geo[1], RSub(r.geo[2], FromInt(1)),
                                   IdentityTransform)
    IN  /\ r.back[1] = r.tile[1]
        /\ r.back[2] = r.tile[2]
        /\ r.back[3] = r.geo[1] /\ r.back[4] = r.geo[2]
        /\ RLt(below[2], r.geo[2]) /\ below[1] = r.geo[1]
        /\ RLt(r.tile[2], south[2]) /\ south[1] = r.tile[1]

\* A round trip from a tile with negative and fractional coordinates.
C6_Witness ==
  /\ roundtrip # Nothing
  /\ roundtrip[1].tile = << Rat(-3, 2), Rat(1, 2) >>
  /\ handler.TC.tile_mx # handler.TC.tile_my

(***************************************************************************)
(* C7.  Mosaic dimensions: the tile bounds returned by                     *)
(* compute_tile_parameters are integers, size_x = (txend - txstart) *      *)
(* tile_size_x and size_y = (tyend - tystart) * tile_size_y, and the       *)
(* canvas created by fetch_image has these dimensions.                     *)
(***************************************************************************)
C7_MosaicDimensions ==
  /\ geom # Nothing =>
       LET g == geom[1]
       IN  /\ {g.txstart, g.txend, g.tystart, g.tyend} \subseteq Int
           /\ g.size_x = (g.txend - g.txstart) * handler.tile_size_x
           /\ g.size_y = (g.tyend - g.tystart) * handler.tile_size_y
  /\ canvas # Nothing =>
       canvas[1].size = << (geom[1].txend - geom[1].txstart) * handler.tile_size_x,
                           (geom[1].tyend - geom[1].tystart) * handler.tile_size_y >>

\* A canvas that is not empty and not square, of tiles that are not square.
C7_Witness ==
  /\ canvas # Nothing
  /\ handler.tile_size_x # handler.tile_size_y
  /\ canvas[1].size[1] > 0 /\ canvas[1].size[2] > 0
  /\ canvas[1].size[1] # canvas[1].size[2]


(***************************************************************************)
(* find_layer at work: a WmsHandler whose capabilities hold a layer tree   *)
(* is asked for layers by name.                                            *)
(***************************************************************************)
\* Layers in a capabilities document.
MaxLayers == 3

\* The layer trees: every shape; every layer may declare a minimum and a
\* maximum scale denominator of its own (10*i and 1000*i for layer i) and
\* lists one reference system; every layer but the first has a name, the
\* first may have one.
LayerTrees ==
  { [parent |-> p, min |-> mn, max |-> mx,
     crs |-> [i \in 1..MaxLayers |-> << i >>],
     name |-> [i \in 1..MaxLayers |-> IF i = 1 /\ ~n1 THEN Nothing ELSE Some(i)]] :
      p \in { q \in [1..MaxLayers -> 0..(MaxLayers - 1)] : \A i \in 1..MaxLayers : q[i] < i },
      mn \in { [i \in 1..MaxLayers |-> IF i \in d THEN Some(Sci(i, 1)) ELSE Nothing] :
                 d \in SUBSET (1..MaxLayers) },
      mx \in { [i \in 1..MaxLayers |-> IF i \in d THEN Some(Sci(i, 3)) ELSE Nothing] :
                 d \in SUBSET (1..MaxLayers) },
      n1 \in BOOLEAN }

\* The handler's variables where only its layer tree matters.
IdleTileHandler ==
  /\ handler = [protocol |-> "wms"]
  /\ cache = EmptyDir
  /\ switch_n = 0
  /\ requests = <<>>
  /\ calls = <<>>
  /\ cell = Nothing
  /\ geom = Nothing
  /\ canvas = Nothing
  /\ nmosaic = 0
  /\ roundtrip = Nothing

InitLayer ==
  /\ IdleTileHandler
  /\ layers \in LayerTrees
  /\ layer_found = Nothing
  /\ NoRun
  /\ NoWorkers

\* self.find_layer(name), for a name of the tree or one that is not in it
FindLayer ==
  /\ \E name \in 1..(MaxLayers + 1) :
       layer_found' = Some([name |-> name, entry |-> find_layer(layers, name)])
  /\ UNCHANGED << tilevars, layers, runvars, workervars >>

NextLayer == FindLayer

SpecLayer == InitLayer /\ [][NextLayer]_vars

(***************************************************************************)
(* C4.  Layer-tree inheritance: for every named layer of every tree,       *)
(* find_layer returns as min_scale_denominator and max_scale_denominator   *)
(* the layer's own value when it declares one, otherwise the value of its  *)
(* nearest ancestor that declares one, otherwise the defaults 0 and 1e12;  *)
(* layers off the path from the top to the layer have no influence.        *)
(***************************************************************************)
\* The value of the nearest layer, from n up to the top, that declares one.
RECURSIVE NearestDeclared(_, _, _)
NearestDeclared(declared, parent, n) ==
  IF n = 0 THEN Nothing
  ELSE IF declared[n] # Nothing THEN declared[n]
  ELSE NearestDeclared(declared, parent, parent[n])

C4_LayerInheritance ==
  layer_found # Nothing =>
    LET n == layer_found[1].name
        e == layer_found[1].entry
        mn == NearestDeclared(layers.min, layers.parent, n)
        mx == NearestDeclared(layers.max, layers.parent, n)
    IN  IF n \in 1..MaxLayers /\ layers.name[n] # Nothing
        THEN /\ e # Nothing
             /\ e[1].name = Some(n)
             /\ e[1].min_scale_denominator = (IF mn # Nothing THEN mn[1] ELSE Sci(0, 0))
             /\ e[1].max_scale_denominator = (IF mx # Nothing THEN mx[1] ELSE Sci(1, 12))
        ELSE e = Nothing

\* A layer that declares a maximum but no minimum, found after a sibling
\* that declares a minimum was searched, below a parent that declares one.
C4_Witness ==
  /\ layer_found # Nothing
  /\ layer_found[1].name = 3
  /\ layers.parent[3] = 1 /\ layers.parent[2] = 1
  /\ layers.min[1] # Nothing /\ layers.min[2] # Nothing /\ layers.min[3] = Nothing
  /\ layers.max[3] # Nothing /\ layers.max[1] # Nothing
  /\ layer_found[1].entry # Nothing
  /\ layer_found[1].entry[1].min_scale_denominator = Sci(1, 1)
  /\ layer_found[1].entry[1].max_scale_denominator = Sci(3, 3)


(***************************************************************************)
(* The program at work: LazColorize(config) is built, then the main loop   *)
(* takes the names of the command line one by one.                         *)
(***************************************************************************)
\* Names on the command line.
MaxArgs == 2

\* The configured layers a run may use as default_layer.
RunConfigIds == {"PM", "L93", "OSM", "WMSPNG", "WMSTIF"}

\* Lidar files of two ground cells, and a name the pattern does not match.
ArgNames ==
  { << "LHD", 0, 1, "LA93" >>, << "LHD", 1, 2, "LB93" >>, << "LHD", 0, 1, "LAMB" >> }

RECURSIVE SeqsOf(_, _)
SeqsOf(S, n) ==
  IF n = 0 THEN { <<>> } ELSE { Append(q, e) : q \in SeqsOf(S, n - 1), e \in S }

\* The state after c = LazColorize(config): the handler complete or cut
\* short, the cache directory empty, the lidar files in the working
\* directory.
InitRun ==
  /\ main_config \in [default_layer : RunConfigIds, keeptmpfiles : BOOLEAN]
  /\ discovery \in IF LayerConfigs[main_config.default_layer].protocol = "tms"
                   THEN { Nothing } ELSE { Some(c) : c \in StatusCodes }
  /\ handler = LazColorizeInit(main_config.default_layer,
                               IF discovery = Nothing THEN 200 ELSE discovery[1])
  /\ layers = IF "layers" \in DOMAIN handler THEN handler.layers
              ELSE [parent |-> <<>>, min |-> <<>>, max |-> <<>>, crs |-> <<>>,
                    name |-> <<>>]
  /\ layer_found = Nothing
  /\ argv \in SeqsOf(ArgNames, MaxArgs)
  /\ argi = 0
  /\ pc = "loop"
  /\ raised = Nothing
  /\ files = [n \in { argv[k] : k \in 1..Len(argv) } |-> [by |-> "lidar"]]
  /\ cache = EmptyDir
  /\ switch_n = 0
  /\ requests = <<>>
  /\ calls = <<>>
  /\ cell = Nothing
  /\ geom = Nothing
  /\ canvas = Nothing
  /\ nmosaic = 0
  /\ roundtrip = Nothing
  /\ tools = <<>>
  /\ image_requests = <<>>
  /\ started = <<>>
  /\ completed = <<>>
  /\ diagnostics = IF discovery # Nothing /\ discovery[1] # 200
                   THEN << [msg |-> "Unable to load capabilities", arg |-> 0] >>
                   ELSE <<>>
  /\ NoWorkers

\* What the loop does after a name: the next one, or the end of the run.
AfterArg_Stop(n) == "exit"

AfterArg(n) == IF n = Len(argv) THEN "exit" ELSE "loop"

\* One turn of the main loop on a name the pattern does not match.
SkipArg ==
  /\ pc = "loop"
  /\ argi < Len(argv)
  /\ re_ign_file_match(argv[argi + 1]) = Nothing
  /\ argi' = argi + 1
  /\ diagnostics' = Append(diagnostics, [msg |-> "skipping", arg |-> argi + 1])
  /\ pc' = AfterArg(argi + 1)
  /\ UNCHANGED << tilevars, layervars, main_config, discovery, argv, raised, files,
                  tools, image_requests, started, completed, workervars >>

\* One turn of the main loop on a name that matches: get_extent, whole.
\* The server answers this cell's requests with one status; the tools of
\* this cell succeed or one of them fails.
GetExtent ==
  /\ pc = "loop"
  /\ argi < Len(argv)
  /\ re_ign_file_match(argv[argi + 1]) # Nothing
  /\ \E status_code \in StatusCodes, ok \in ToolOutcomes :
       LET n == argi + 1
           m == re_ign_file_match(argv[n])[1]
           fs == [cache |-> cache, switch_n |-> switch_n, requests |-> requests,
                  calls |-> calls, geom |-> geom, canvas |-> canvas, files |-> files,
                  tools |-> tools, image_requests |-> image_requests,
                  diagnostics |-> diagnostics, raised |-> Nothing]
       IN  \E r \in { get_extent(main_config, handler, fs, n, argv[n], m[1], m[2],
                                 status_code, ok) } :
           /\ cache' = r.cache
           /\ switch_n' = r.switch_n
           /\ requests' = r.requests
           /\ calls' = r.calls
           /\ geom' = r.geom
           /\ canvas' = r.canvas
           /\ files' = r.files
           /\ tools' = r.tools
           /\ image_requests' = r.image_requests
           /\ diagnostics' = r.diagnostics
           /\ raised' = r.raised
           /\ cell' = Some(m)
           /\ started' = Append(started, n)
           /\ completed' = IF r.raised = Nothing THEN Append(completed, n) ELSE completed
           /\ pc' = IF r.raised = Nothing THEN AfterArg(n) ELSE "raised"
  /\ argi' = argi + 1
  /\ UNCHANGED << handler, nmosaic, roundtrip, layervars, main_config, discovery, argv,
                  workervars >>

NextRun == SkipArg \/ GetExtent

SpecRun == InitRun /\ [][NextRun]_vars

\* Readers of a run.
Matching(k) == re_ign_file_match(argv[k]) # Nothing
ToolsOf(k) == { j \in 1..Len(tools) : tools[j].arg = k }
ImageRequestsOf(k) == { j \in 1..Len(image_requests) : image_requests[j].arg = k }
StartedArgs == { started[j] : j \in 1..Len(started) }
CompletedArgs == { completed[j] : j \in 1..Len(completed) }

\* The cell of name k failed in one of the ways of C8: its image request was
\* refused, or one of its tools failed and wrote nothing.
CellFailed(k) ==
  \/ \E j \in ImageRequestsOf(k) : image_requests[j].status # 200
  \/ \E j \in ToolsOf(k) : tools[j].tool \in {"gdalwarp", "pdal"} /\ ~tools[j].ok

(***************************************************************************)
(* C8.  Per-cell failure isolation: when the processing of one ground cell *)
(* fails (its bounding-box request is refused, or the reprojection or the  *)
(* colorization tool fails and writes nothing), every later ground cell of *)
(* the command line is still processed.  Stated for runs that have ended,  *)
(* with keeptmpfiles set and the capabilities loaded, so that nothing else *)
(* than the failure named is at work.                                      *)
(***************************************************************************)
C8_FailureIsolation ==
  (/\ pc \in {"exit", "raised"}
   /\ main_config.keeptmpfiles
   /\ (discovery = Nothing \/ discovery[1] = 200))
  => \A k \in 1..Len(argv) :
       (k \in StartedArgs /\ CellFailed(k))
       => \A l \in (k + 1)..Len(argv) : Matching(l) => l \in CompletedArgs

C10_RefusedImageIsHardFailure ==
  \A k \in 1..Len(argv) :
    /\ Cardinality(ImageRequestsOf(k)) <= 1
    /\ (\E j \in ImageRequestsOf(k) : image_requests[j].status # 200)
       => /\ ToolsOf(k) = {}
          /\ \A name \in DOMAIN cache :
               ~(name[2] = image_requests[CHOOSE j \in ImageRequestsOf(k) : TRUE].x
                 /\ name[3] = image_requests[CHOOSE j \in ImageRequestsOf(k) : TRUE].y)


(***************************************************************************)
(* C11.  Cache-first write-through: fetch_tile sends a request only when   *)
(* the cache holds no entry for the tile address; on a miss answered with  *)
(* 200 the bytes received are stored under that address, unchanged, by the *)
(* time fetch_tile returns; a response with another status stores nothing. *)
(* Files are never removed from the cache here, and the bytes of request n *)
(* carry n, so what the cache held when a call was made can be read from   *)
(* what it holds now.                                                      *)
(***************************************************************************)
\* The cache file name of a tile, by the handler's class.
TileAddress(h, tile_x, tile_y) ==
  IF h.protocol = "wmts" THEN CacheName(h.layer, h.zoom, tile_x, tile_y, h.format_ext)
  ELSE CacheName(h.layer, h.zoom, tile_x, tile_y, "unk")

\* Requests sent before call i was made.
RequestsBefore(i) == IF i = 1 THEN 0 ELSE AllCalls[i - 1].nreq

C11_CacheFirstWriteThrough ==
  /\ \A i \in 1..Len(AllCalls) :
       LET c == AllCalls[i]
           name == TileAddress(handler, c.x, c.y)
       IN  IF c.cached
           THEN /\ c.nreq = RequestsBefore(i)
                /\ name \in DOMAIN cache
                /\ cache[name].epoch <= RequestsBefore(i)
                /\ c.image = ImageOpen(cache[name])
           ELSE /\ c.nreq = RequestsBefore(i) + 1
                /\ requests[c.nreq].x = c.x /\ requests[c.nreq].y = c.y
                /\ name \in DOMAIN cache => cache[name].epoch >= c.nreq
                /\ CacheName("orig", handler.zoom, c.x, c.y, "jpg") \notin DOMAIN cache
                /\ requests[c.nreq].status = 200
                   => /\ name \in DOMAIN cache
                      /\ cache[name] = ServerTile(handler, c.x, c.y, c.nreq)
                      /\ c.image = ImageOpen(cache[name])
  /\ \A n \in 1..Len(requests) :
       requests[n].status # 200 => \A name \in DOMAIN cache : cache[name].epoch # n

\* One run with a miss answered 200, a miss answered otherwise, a call
\* served with what an earlier request stored and a call served with a
\* file that was there from the start.
C11_Witness ==
  /\ \E i \in 1..Len(AllCalls) : ~AllCalls[i].cached /\ ~Failed(AllCalls[i])
  /\ \E i \in 1..Len(AllCalls) : ~AllCalls[i].cached /\ Failed(AllCalls[i])
  /\ \E i \in 1..Len(AllCalls) :
       AllCalls[i].cached /\ cache[TileAddress(handler, AllCalls[i].x, AllCalls[i].y)].epoch > 0
  /\ \E i \in 1..Len(AllCalls) :
       AllCalls[i].cached /\ cache[TileAddress(handler, AllCalls[i].x, AllCalls[i].y)].epoch = 0


(***************************************************************************)
(* Several runs of the program at once, in one working directory and with  *)
(* one cache directory: each worker is a run of the main loop on one lidar *)
(* file.  The steps are the file-system calls of get_extent, which the     *)
(* system may interleave in any order; a run may also be interrupted       *)
(* between any two of them.  The layers used need no reprojection, so that *)
(* the raster pdal is given is the one fetch_georeferenced_image returns.  *)
(***************************************************************************)
\* Runs at once.
MaxWorkers == 2
\* Chunks r.iter_content yields for one image.
MaxChunks == 2

Workers == 1..MaxWorkers
WorkerConfigIds == {"L93", "WMSTIF"}
\* Two neighbouring cells, whose mosaics have a tile in common.
WorkerCells == { << 0, 1 >>, << 0, 2 >> }

\* The lidar file of a cell.
LidarName(c) == << "LHD", c[1], c[2], "LA93" >>

\* The cache files of the tiles of one row, then of all rows, in the order
\* of the two loops of fetch_image.
RECURSIVE RowKeys(_, _, _, _)
RowKeys(h, x, txend, y) ==
  IF x >= txend THEN <<>>
  ELSE << [x |-> x, y |-> y, name |-> TileAddress(h, x, y)] >> \o RowKeys(h, x + 1, txend, y)

RECURSIVE TileKeys(_, _, _, _, _)
TileKeys(h, txstart, txend, y, tyend) ==
  IF y >= tyend THEN <<>>
  ELSE RowKeys(h, txstart, txend, y) \o TileKeys(h, txstart, txend, y + 1, tyend)

\* The cache files a cell needs, in the order they are looked up: the tiles
\* of the mosaic row by row, or the one image of the bounding box.
WorkerKeys(h, c) ==
  IF h.protocol = "wms"
  THEN << [x |-> c[1], y |-> c[2], name |-> << h.layer, c[1], c[2], h.format_ext >>] >>
  ELSE Bind(compute_tile_parameters(h, c[1], c[2]),
            LAMBDA g : TileKeys(h, g.txstart, g.txend, g.tystart, g.tyend))

\* Writes that store one response: o.write(data) for a tile, one write per
\* chunk of iter_content for an image.
NChunks(h) == IF h.protocol = "wms" THEN MaxChunks ELSE 1

\* The bytes worker w receives, chunk by chunk.
Chunk(w, k) == [by |-> w, k |-> k]
Payload(h, w) == [k \in 1..NChunks(h) |-> Chunk(w, k)]

\* Bytes of a file that no write has set.
Hole == [by |-> 0, k |-> 0]

\* write() at the writer's own file position pos.
WriteAt(content, pos, chunk) ==
  [i \in 1..(IF Len(content) > pos THEN Len(content) ELSE pos) |->
     IF i = pos THEN chunk ELSE IF i <= Len(content) THEN content[i] ELSE Hole]

\* The raster fetch_georeferenced_image returns for the cell.
WorkerRaster(h, c) ==
  IF h.protocol = "wms"
  THEN CachePath(<< h.layer, c[1], c[2], h.format_ext >>)
  ELSE CwdPath(<< "img", c[1], c[2], RefFile(h.ortho_ref), "geotiff" >>)

\* pdal_config of get_extent
PipelineOf(h, c) ==
  [infile |-> LidarName(c), raster |-> WorkerRaster(h, c),
   filename |-> CwdPath(<< "color", c[1], c[2], "laz", "tmp" >>)]

InitWorkers ==
  /\ main_config \in [default_layer : WorkerConfigIds, keeptmpfiles : {TRUE}]
  /\ discovery = Some(200)
  /\ handler = LazColorizeInit(main_config.default_layer, 200)
  /\ layers = IF "layers" \in DOMAIN handler THEN handler.layers
              ELSE [parent |-> <<>>, min |-> <<>>, max |-> <<>>, crs |-> <<>>,
                    name |-> <<>>]
  /\ layer_found = Nothing
  /\ wcell \in [Workers -> WorkerCells]
  /\ wkeys = [w \in Workers |-> WorkerKeys(handler, wcell[w])]
  /\ wpc = [w \in Workers |-> "lookup"]
  /\ woffset = [w \in Workers |-> 0]
  /\ wgot = [w \in Workers |-> {}]
  /\ wread = [w \in Workers |-> <<>>]
  /\ wpiped = [w \in Workers |-> Nothing]
  /\ files = [n \in { LidarName(wcell[w]) : w \in Workers } |-> [by |-> "lidar"]]
  /\ cache = EmptyDir
  /\ argv = <<>>
  /\ argi = 0
  /\ pc = "workers"
  /\ raised = Nothing
  /\ switch_n = 0
  /\ requests = <<>>
  /\ calls = <<>>
  /\ cell = Nothing
  /\ geom = Nothing
  /\ canvas = Nothing
  /\ nmosaic = 0
  /\ roundtrip = Nothing
  /\ tools = <<>>
  /\ image_requests = <<>>
  /\ started = <<>>
  /\ completed = <<>>
  /\ diagnostics = <<>>

\* What the program state other than the two directories does not change.
WorkersUnchanged ==
  UNCHANGED << handler, switch_n, requests, calls, cell, geom, canvas, nmosaic,
               roundtrip, layervars, main_config, discovery, argv, argi, pc, raised,
               tools, image_requests, started, completed, diagnostics, wcell >>

\* The worker goes on to its next cache file, or has its raster.
Settled(w) ==
  /\ wkeys' = [wkeys EXCEPT ![w] = Tail(@)]
  /\ wpc' = [wpc EXCEPT ![w] = IF Len(wkeys[w]) = 1 THEN "raster" ELSE "lookup"]

\* "Try the cache first": os.path.exists(orig_name), and the read if so.
WLookup(w) ==
  /\ wpc[w] = "lookup"
  /\ LET key == Head(wkeys[w])
         cache1 == IF handler.protocol = "wmts"
                   THEN MigrateOldName(handler, cache, key.x, key.y) ELSE cache
     IN  /\ cache' = cache1
         /\ IF CacheHit(cache1, key.name)
            THEN /\ wread' = [wread EXCEPT ![w] =
                                Append(@, [name |-> key.name, data |-> cache1[key.name]])]
                 /\ Settled(w)
            ELSE /\ wpc' = [wpc EXCEPT ![w] = "request"]
                 /\ UNCHANGED << wread, wkeys >>
  /\ UNCHANGED << files, woffset, wgot, wpiped >>
  /\ WorkersUnchanged

\* The response arrives; with status 200, open(orig_name, 'wb+') creates
\* the file, or empties the one that is there.
WRespond(w) ==
  /\ wpc[w] = "request"
  /\ \E status_code \in StatusCodes :
       IF TileStored(status_code)
       THEN /\ cache' = WriteFile(cache, Head(wkeys[w]).name, <<>>)
            /\ wgot' = [wgot EXCEPT ![w] = @ \cup { Head(wkeys[w]).name }]
            /\ woffset' = [woffset EXCEPT ![w] = 0]
            /\ wpc' = [wpc EXCEPT ![w] = "writing"]
            /\ UNCHANGED wkeys
       ELSE /\ Settled(w)
            /\ UNCHANGED << cache, wgot, woffset >>
  /\ UNCHANGED << files, wread, wpiped >>
  /\ WorkersUnchanged

\* o.write(data): one chunk, at the position this writer has reached.
WWrite(w) ==
  /\ wpc[w] = "writing"
  /\ cache' = [cache EXCEPT ![Head(wkeys[w]).name] =
                 WriteAt(@, woffset[w] + 1, Chunk(w, woffset[w] + 1))]
  /\ woffset' = [woffset EXCEPT ![w] = @ + 1]
  /\ IF woffset[w] + 1 = NChunks(handler)
     THEN Settled(w)
     ELSE UNCHANGED << wkeys, wpc >>
  /\ UNCHANGED << files, wgot, wread, wpiped >>
  /\ WorkersUnchanged

\* With the raster at hand (for tiles: the mosaic saved and georeferenced
\* under names of the cell), json.dump(pdal_config) into pdal_tmp.json.
WConfigure(w) ==
  /\ wpc[w] = "raster"
  /\ \E ok \in BOOLEAN :
       LET c == wcell[w]
           image == << "img", c[1], c[2], "png" >>
           files1 == IF handler.protocol = "wms" THEN files
                     ELSE IF ok
                     THEN WriteFile(WriteFile(files, image, [by |-> "fetch_image"]),
                                    WorkerRaster(handler, c).name,
                                    [by |-> "gdal_translate"])
                     ELSE WriteFile(files, image, [by |-> "fetch_image"])
       IN  files' = WriteFile(files1, << "pdal_tmp", "json" >>, PipelineOf(handler, c))
  /\ wpc' = [wpc EXCEPT ![w] = "configured"]
  /\ UNCHANGED << cache, wkeys, woffset, wgot, wread, wpiped >>
  /\ WorkersUnchanged

\* subprocess.run([pdal, "pipeline", "pdal_tmp.json"]): pdal reads the
\* document that is in the file now and runs what it says.
WPdal(w) ==
  /\ wpc[w] = "configured"
  /\ \E ok \in BOOLEAN :
       LET doc == files[<< "pdal_tmp", "json" >>]
           fs == [cache |-> cache, files |-> files]
           success == ok /\ Exists(fs, CwdPath(doc.infile)) /\ Exists(fs, doc.raster)
       IN  /\ wpiped' = [wpiped EXCEPT ![w] = Some(doc)]
           /\ files' = IF success
                       THEN WriteFile(files, doc.filename.name,
                                      [by |-> "pdal", infile |-> doc.infile,
                                       raster |-> doc.raster])
                       ELSE files
  /\ wpc' = [wpc EXCEPT ![w] = "piped"]
  /\ UNCHANGED << cache, wkeys, woffset, wgot, wread >>
  /\ WorkersUnchanged

\* os.rename of the cell's .laz.tmp; FileNotFoundError when it is not there.
WRename(w) ==
  /\ wpc[w] = "piped"
  /\ LET c == wcell[w]
         tmp == << "color", c[1], c[2], "laz", "tmp" >>
         out == << "color", c[1], c[2], "laz" >>
     IN  IF tmp \in DOMAIN files
         THEN /\ files' = RenameFile(files, tmp, out)
              /\ wpc' = [wpc EXCEPT ![w] = "done"]
         ELSE /\ wpc' = [wpc EXCEPT ![w] = "raised"]
              /\ UNCHANGED files
  /\ UNCHANGED << cache, wkeys, woffset, wgot, wread, wpiped >>
  /\ WorkersUnchanged

\* The run is interrupted where it stands.
WInterrupt(w) ==
  /\ wpc[w] \notin {"done", "raised", "killed"}
  /\ wpc' = [wpc EXCEPT ![w] = "killed"]
  /\ UNCHANGED << cache, files, wkeys, woffset, wgot, wread, wpiped >>
  /\ WorkersUnchanged

NextWorkers ==
  \E w \in Workers :
    \/ WLookup(w)
    \/ WRespond(w)
    \/ WWrite(w)
    \/ WConfigure(w)
    \/ WPdal(w)
    \/ WRename(w)
    \/ WInterrupt(w)

SpecWorkers == InitWorkers /\ [][NextWorkers]_vars

(***************************************************************************)
(* C12.  Cache write atomicity: with several workers on one cache          *)
(* directory and runs that may be interrupted anywhere, whenever a lookup  *)
(* finds an entry, the bytes it reads are the whole payload that some      *)
(* fetch received for that entry.                                          *)
(***************************************************************************)
C12_NoPartialRead ==
  \A w \in DOMAIN wread : \A i \in 1..Len(wread[w]) :
    \E v \in DOMAIN wgot :
      /\ wread[w][i].name \in wgot[v]
      /\ wread[w][i].data = Payload(handler, v)

(***************************************************************************)
(* C13.  Independence of ground cells: whatever the interleaving of the    *)
(* workers, each worker's pdal run is given that worker's own lidar file,  *)
(* raster and output name, and the output it renames was made from its own *)
(* lidar file.                                                             *)
(***************************************************************************)
C13_OwnPipeline ==
  \A w \in DOMAIN wpiped :
    /\ wpiped[w] # Nothing => wpiped[w][1] = PipelineOf(handler, wcell[w])
    /\ wpc[w] = "done"
       => files[<< "color", wcell[w][1], wcell[w][2], "laz" >>].infile
            = LidarName(wcell[w])

(***************************************************************************)
(* C14.  Cleanup: for every ground cell processed with keeptmpfiles unset, *)
(* processing completes and the stitched image and the georeferenced       *)
(* rasters of the cell are gone afterwards; with keeptmpfiles set, no      *)
(* raster a tool wrote for the cell is removed.  Stated for cells whose    *)
(* requests and tools all succeeded, after a discovery that succeeded.     *)
(***************************************************************************)
\* The cell of name k.
CellOf(k) == re_ign_file_match(argv[k])[1]

\* The img-XXXX-YYYY files of the cell of name k in the working directory.
Intermediates(k) ==
  { name \in DOMAIN files :
      name[1] = "img" /\ name[2] = CellOf(k)[1] /\ name[3] = CellOf(k)[2] }

\* Nothing went wrong for name k on the side of the servers and the tools.
CellClean(k) ==
  /\ discovery = Nothing \/ discovery[1] = 200
  /\ \A j \in ImageRequestsOf(k) : image_requests[j].status = 200
  /\ \A j \in ToolsOf(k) : tools[j].ok

C14_Cleanup ==
  \A k \in StartedArgs :
    CellClean(k)
    => IF ~main_config.keeptmpfiles
       THEN k \in CompletedArgs /\ Intermediates(k) = {}
       ELSE \A j \in ToolsOf(k) :
              tools[j].tool # "pdal" => Exists([cache |-> cache, files |-> files],
                                               tools[j].output)

(***************************************************************************)
(* C15.  Unparseable names are skipped: the loop turn on a name that       *)
(* re_ign_file does not match sends no request, runs no tool, writes no    *)
(* file, appends the "skipping" diagnostic and hands over to the next      *)
(* name; the matching names are passed to get_extent in command-line       *)
(* order, each one after every skipped name before it; a run that reaches  *)
(* its end has taken every name, and a run that ends early ends inside     *)
(* get_extent of a matching name, never at a skipped one.                  *)
(***************************************************************************)
\* The "skipping" diagnostics of name k.
Skipped(k) ==
  { j \in 1..Len(diagnostics) : diagnostics[j] = [msg |-> "skipping", arg |-> k] }

C15_State ==
  /\ \A k \in 1..argi :
       IF Matching(k)
       THEN k \in StartedArgs /\ Skipped(k) = {}
       ELSE /\ k \notin StartedArgs
            /\ ToolsOf(k) = {}
            /\ ImageRequestsOf(k) = {}
            /\ Cardinality(Skipped(k)) = 1
  /\ \A i, j \in 1..Len(started) : i < j => started[i] < started[j]
  /\ \A i, j \in 1..Len(diagnostics) :
       (i < j /\ diagnostics[i].msg = "skipping" /\ diagnostics[j].msg = "skipping")
       => diagnostics[i].arg < diagnostics[j].arg
  /\ pc = "exit" => argi = Len(argv)
  /\ pc = "loop" => argi < Len(argv)
  /\ pc = "raised" => (argi > 0 /\ Matching(argi) /\ started[Len(started)] = argi)

C15_Step ==
  (pc = "loop" /\ argi < Len(argv) /\ ~Matching(argi + 1))
  => /\ UNCHANGED << requests, image_requests, calls, tools, cache, files, started,
                     completed, raised >>
     /\ argi' = argi + 1
     /\ diagnostics' = Append(diagnostics, [msg |-> "skipping", arg |-> argi + 1])
     /\ pc' = IF argi + 1 < Len(argv) THEN "loop" ELSE "exit"

C15_SkipUnparseable == [][C15_State /\ C15_State' /\ C15_Step]_vars

\* A name was skipped and the matching name after it went through get_extent
\* to its end.
C15_Witness ==
  /\ pc = "exit"
  /\ \E k \in 1..Len(argv) :
       /\ ~Matching(k)
       /\ Skipped(k) # {}
       /\ \E l \in (k + 1)..Len(argv) : l \in CompletedArgs

(***************************************************************************)
(* C16.  Fetch order and placement: fetch_image calls fetch_tile exactly   *)
(* once for every tile (x, y) with txstart <= x < txend and tystart <= y   *)
(* < tyend, row by row (all x of one y before the next y), pastes the      *)
(* image of tile (x, y) at ((x - txstart) * tile_size_x, (y - tystart) *   *)
(* tile_size_y), and sends at most one request per call, for that call's   *)
(* tile: a tile whose request failed is not requested again.               *)
(***************************************************************************)
\* Tiles per row and rows of the mosaic with bounds g.
MosaicColumns(g) == IF g.txend > g.txstart THEN g.txend - g.txstart ELSE 0
MosaicRows(g) == IF g.tyend > g.tystart THEN g.tyend - g.tystart ELSE 0

C16_FetchOrderAndPlacement ==
  canvas # Nothing =>
    LET g == geom[1]
        cv == canvas[1]
        W == MosaicColumns(g)
        n == W * MosaicRows(g)
    IN  /\ Len(LastCalls) = n
        /\ Len(cv.pastes) = n
        /\ \A k \in 1..n :
             LET c == LastCalls[k]
                 x == g.txstart + ((k - 1) % W)
                 y == g.tystart + ((k - 1) \div W)
                 before == IF k = 1 THEN Len(requests) - Cardinality({ j \in 1..n : ~LastCalls[j].cached })
                           ELSE LastCalls[k - 1].nreq
             IN  /\ c.x = x /\ c.y = y
                 /\ cv.pastes[k].at = << (x - g.txstart) * handler.tile_size_x,
                                         (y - g.tystart) * handler.tile_size_y >>
                 /\ cv.pastes[k].img = c.image
                 /\ IF c.cached THEN c.nreq = before
                    ELSE /\ c.nreq = before + 1
                         /\ requests[c.nreq].x = x /\ requests[c.nreq].y = y
        /\ n > 0 => LastCalls[n].nreq = Len(requests)

\* A mosaic of two rows and two columns at least, one of whose requests was
\* refused.
C16_Witness ==
  /\ canvas # Nothing
  /\ MosaicColumns(geom[1]) >= 2
  /\ MosaicRows(geom[1]) >= 2
  /\ \E k \in 1..Len(LastCalls) : Failed(LastCalls[k])
  /\ \E k \in 1..Len(LastCalls) : LastCalls[k].cached

(***************************************************************************)
(* C17.  Inherited fields are merged exactly once per query: for every     *)
(* tree and every named layer, the CRS list find_layer returns is the      *)
(* concatenation of the CRS lists of the layers on the path from the top   *)
(* to the layer, each taken once, and nothing else: no CRS of a sibling or *)
(* of a subtree searched before.                                           *)
(***************************************************************************)
\* The CRS lists of the layers from the top down to layer n, concatenated.
RECURSIVE PathCrs(_, _)
PathCrs(tree, n) ==
  IF n = 0 THEN <<>> ELSE PathCrs(tree, tree.parent[n]) \o tree.crs[n]

C17_PathOnlyCrs ==
  (layer_found # Nothing /\ layer_found[1].entry # Nothing)
  => layer_found[1].entry[1].crs = PathCrs(layers, layer_found[1].name)

(***************************************************************************)
(* C18.  Cleanup never removes a cache entry: after any sequence of        *)
(* processed ground cells, whatever the protocol, the image format and the *)
(* reference system, every file a fetch stored in the cache directory is   *)
(* still there, and no cell or tile is requested again after a request for *)
(* it was answered with 200.                                               *)
(***************************************************************************)
C18_CacheSurvivesCleanup ==
  /\ \A j \in 1..Len(image_requests) :
       image_requests[j].status = 200
       => /\ << handler.layer, image_requests[j].x, image_requests[j].y,
                handler.format_ext >> \in DOMAIN cache
          /\ \A i \in (j + 1)..Len(image_requests) :
               ~(image_requests[i].x = image_requests[j].x
                 /\ image_requests[i].y = image_requests[j].y)
  /\ \A j \in 1..Len(requests) :
       requests[j].status = 200
       => /\ TileAddress(handler, requests[j].x, requests[j].y) \in DOMAIN cache
          /\ \A i \in (j + 1)..Len(requests) :
               ~(requests[i].x = requests[j].x /\ requests[i].y = requests[j].y)

====
